---- MODULE Spec2Model ----
(***************************************************************************)
(* Therapy-Insight-Engine: the event pipeline                              *)
(*   ingestion -> audio_extractor -> transcription -> analyzer             *)
(* with its object store (MinIO), broker queues (RabbitMQ), cache (Redis)  *)
(* and analysis store (Postgres).  Every await of a handler is one step.   *)
(***************************************************************************)
EXTENDS Integers, Sequences, FiniteSets, TLC

\* ---------------------------------------------------------------- bounds
MaxEvents == 2
MaxCrashes == 1

\* ------------------------------------------------------------ value sets
Ids == {"E1", "E2"}
Slots == {"w1", "w2"}

\* transcript texts, as sequences of characters
Texts == {<<>>, <<" ">>, <<"a">>, <<"b">>}

Nil == [kind |-> "nil"]

\* ----------------------------------------------------- analyzer: helpers
IsSpace(c) == c = " "

RECURSIVE LStrip(_)
LStrip(t) == IF t # <<>> /\ IsSpace(Head(t)) THEN LStrip(Tail(t)) ELSE t

RECURSIVE RStrip(_)
RStrip(t) ==
    IF t # <<>> /\ IsSpace(t[Len(t)]) THEN RStrip(SubSeq(t, 1, Len(t) - 1)) ELSE t

\* a faulty strip that strips nothing
StripMutant(t) == t
\* str.strip()
Strip(t) == RStrip(LStrip(t))

\* `not event.transcript_text or not event.transcript_text.strip()`
TextInvalid(t) == t = <<>> \/ Strip(t) = <<>>

\* hashlib.sha256(text.encode()).hexdigest(): a digest of the raw text,
\* taken to be collision free on the texts of the model
Sha256(t) == [digest |-> t]

\* f"analysis:{transcript_hash}"
CacheKey(ev) == [prefix |-> "analysis:", hash |-> Sha256(ev.text)]

CacheKeys == {[prefix |-> "analysis:", hash |-> Sha256(t)] : t \in Texts}

\* response.text of the generative model when it is a FullAnalysis document
\* (video_id is not asked for and defaults to "")
VendorResponses ==
    { [kind |-> "json", video_id |-> "", segments |-> <<"g1">>, summary |-> "s1",
       recommendations |-> <<"r1">>],
      [kind |-> "json", video_id |-> "", segments |-> <<"g1", "g2">>,
       summary |-> "s2", recommendations |-> <<>>] }

NoResult == [video_id |-> "", segments |-> <<>>, summary |-> "",
             recommendations |-> <<>>]

\* a faulty serialisation that loses the segments
ModelDumpJsonMutant(r) ==
    [kind |-> "json", video_id |-> r.video_id, segments |-> <<>>,
     summary |-> r.summary, recommendations |-> r.recommendations]
\* FullAnalysis.model_dump_json()
ModelDumpJson(r) ==
    [kind |-> "json", video_id |-> r.video_id, segments |-> r.segments,
     summary |-> r.summary, recommendations |-> r.recommendations]

\* a text that is not a FullAnalysis document
Garbage == [kind |-> "garbage"]

\* a faulty parse that accepts any text and fills in the defaults
ModelValidateJsonMutant(j) ==
    [ok |-> TRUE,
     value |-> IF j.kind = "json"
               THEN [video_id |-> j.video_id, segments |-> j.segments,
                     summary |-> j.summary, recommendations |-> j.recommendations]
               ELSE NoResult]
\* FullAnalysis.model_validate_json(text): the parsed model, or a failure
ModelValidateJson(j) ==
    IF j.kind = "json"
    THEN [ok |-> TRUE,
          value |-> [video_id |-> j.video_id, segments |-> j.segments,
                     summary |-> j.summary,
                     recommendations |-> j.recommendations]]
    ELSE [ok |-> FALSE, value |-> NoResult]

\* a faulty test that never takes the cached branch
CachedTruthyMutant(c) == FALSE
\* `if cached_data:` -- None and the empty string are falsy
CachedTruthy(c) == c # Nil

\* json.dumps(list)
JsonDumps(l) == [kind |-> "json_list", items |-> l]

\* the seconds a cached analysis lives (24 hours)
CacheEx == 86400

\* a faulty set that gives the entry no expiry
RedisSetExMutant(ttl, k) == [ttl EXCEPT ![k] = Nil]
\* the ex= argument of redis.set: the entry of key k expires after CacheEx
RedisSetEx(ttl, k) == [ttl EXCEPT ![k] = [kind |-> "ex", seconds |-> CacheEx]]

\* the expiries of a cache in which exactly the keys of K were set
RedisSetExAll(K) ==
    [k \in CacheKeys |->
        IF k \in K THEN RedisSetEx([c \in CacheKeys |-> Nil], k)[k] ELSE Nil]
\* a faulty upsert that keeps the recommendations of the row it finds
UpsertSummaryMutant(summary, r) ==
    [summary EXCEPT ![r.video_id] =
        [kind |-> "row", summary_text |-> r.summary,
         recommendations |-> IF @ = Nil THEN JsonDumps(r.recommendations)
                             ELSE @.recommendations]]
\* INSERT INTO analysis_summary ... ON CONFLICT (video_id) DO UPDATE SET ...
UpsertSummary(summary, r) ==
    [summary EXCEPT ![r.video_id] =
        [kind |-> "row", summary_text |-> r.summary,
         recommendations |-> JsonDumps(r.recommendations)]]

\* INSERT INTO analysis_segments ... VALUES (...)
InsertSegment(segments, vid, seg) ==
    Append(segments, [video_id |-> vid, seg |-> seg])

\* ------------------------------------------------------------- the state
VARIABLES
    qVideo,       \* queue video_processing
    qAudio,       \* queue audio_extracted
    qTranscript,  \* queue transcript_ready
    ex,           \* audio_extractor: in-flight handle_video_uploaded calls
    tr,           \* transcription: in-flight handle_audio_extracted calls
    an,           \* analyzer: in-flight handle_transcript calls
    videos,       \* MinIO bucket "videos": the keys stored
    audio,        \* MinIO bucket "audio": the keys stored
    tmp,          \* files under /tmp
    cache,        \* Redis: key -> value
    cache_ttl,    \* Redis: key -> seconds the entry lives, when it has a limit
    db_summary,   \* table analysis_summary, keyed by video_id
    db_segments,  \* table analysis_segments, in id order
    db_videos,    \* table videos: the ids of its rows
    vendorCalls,  \* history: generate_content calls made, per transcript text
    lastStored,   \* history: the analysis last cached for each transcript text
    env,          \* the run: where its events come from, how many came and
                  \* for which entities, whether one came twice, whether a
                  \* call failed, crashes, whether an entry expired
    cap,          \* handler calls a service runs at once (prefetch)
    fin,          \* the handler call that ended in the last step, if any
    dead          \* history: the entities of which a stage rejected an event

anVars == <<qTranscript, an, cache, cache_ttl, db_summary, db_segments, vendorCalls,
            lastStored>>
pipeVars == <<qVideo, qAudio, ex, tr, videos, audio, tmp>>
vars == <<qVideo, qAudio, qTranscript, ex, tr, an, videos, audio, tmp, cache,
          cache_ttl, db_summary, db_segments, db_videos, vendorCalls, lastStored,
          env, cap, fin, dead>>

NoEvent == [video_id |-> "", has_text |-> FALSE, text |-> <<>>]

IdleAn == [pc |-> "idle", event |-> NoEvent, path |-> "none", result |-> NoResult,
           idx |-> 0, log |-> <<>>, msg |-> "none"]

Busy(r) == r.pc \notin {"idle", "done"}
InFlight(f) == Cardinality({s \in Slots : Busy(f[s])})

\* the slot a new delivery takes: the first one that is not busy
FreeSlot(f) == IF ~Busy(f["w1"]) THEN "w1" ELSE "w2"

\* a faulty subscriber whose messages are acked on delivery
UnsettledOfMutant(f) == <<>>
\* what the broker redelivers when the process of f dies
UnsettledOf(f) ==
    (IF Busy(f["w1"]) THEN <<f["w1"].event>> ELSE <<>>)
        \o (IF Busy(f["w2"]) THEN <<f["w2"].event>> ELSE <<>>)

\* an external call may fail at any time; env remembers that one did
CanFault == TRUE
Fault == [env EXCEPT !.faulted = TRUE]

Logged(r, what) == [r EXCEPT !.log = Append(@, what)]

\* the handler returns: FastStream acks the message unless the handler has
\* already rejected it
Returned(r) ==
    [r EXCEPT !.pc = "done", !.msg = IF @ = "unacked" THEN "acked" ELSE @]

\* a faulty except that logs the failure and forgets to reject
RejectedMutant(r, requeue) == Logged(r, "reject")
\* msg.reject(requeue=...)
Rejected(r, requeue) ==
    [Logged(r, "reject") EXCEPT !.msg = IF requeue THEN "requeued" ELSE "rejected"]

\* an exception leaves the handler: FastStream rejects the message
\* (its default for a subscriber without retry)
Raised(r) == [Logged(r, "raise") EXCEPT !.pc = "done", !.msg = "rejected"]

\* the call that ended in the last step
NoFin == [stage |-> "none"]
Fin(stage, call) == [stage |-> stage, call |-> call]

\* a call that ended with its message rejected dead-letters the entity
DeadAfter(r) ==
    IF r.pc = "done" /\ r.msg = "rejected" THEN dead \cup {r.event.video_id}
    ELSE dead

\* the synchronous calls of the handlers: MinIO client, ffmpeg, AssemblyAI SDK
SyncCalls == {"fget", "ffmpeg", "fput", "transcribe"}

\* faulty handlers that make their synchronous calls on the event loop
ToThreadMutant(pc) == FALSE
\* the calls made through asyncio.to_thread, in a worker thread
ToThread(pc) == pc \in {"fget", "ffmpeg", "fput", "transcribe"}

\* the event loop of the service can run the call in slot s: no other call
\* of the service is inside a synchronous call on the loop
LoopFree(f, s) ==
    \A o \in Slots \ {s} : ~(f[o].pc \in SyncCalls /\ ~ToThread(f[o].pc))
\* ------------------------------------------------- analyzer: the handler
\* one step of the call in slot s: a call that ended leaves its slot
SetAn(s, r) ==
    /\ an' = [an EXCEPT ![s] = IF r.pc = "done" THEN IdleAn ELSE r]
    /\ fin' = IF r.pc = "done" THEN Fin("analyzer", r) ELSE NoFin
    /\ dead' = DeadAfter(r)

\* a faulty reject that asks the broker to requeue
AnRejectRequeueMutant == TRUE
\* msg.reject(requeue=False)
AnRejectRequeue == FALSE

\* an event with transcript_text reaches the subscriber of transcript_ready
DeliverTranscript ==
    /\ env.source = "transcript"
    /\ env.events < MaxEvents
    /\ \E id \in Ids, t \in Texts :
          /\ qTranscript' = Append(qTranscript,
                                   [video_id |-> id, has_text |-> TRUE, text |-> t])
          /\ env' = [env EXCEPT !.events = @ + 1, !.issued = @ \cup {id},
                                !.repeated = @ \/ id \in env.issued]
    /\ fin' = NoFin
    /\ UNCHANGED dead
    /\ UNCHANGED <<an, cache, cache_ttl, db_summary, db_segments, vendorCalls,
                   lastStored, cap, db_videos, pipeVars>>

\* lines 133-142: the call starts; validation; the cache key
AnStart(s) ==
    /\ s = FreeSlot(an)
    /\ InFlight(an) < cap
    /\ qTranscript # <<>>
    /\ LET ev == Head(qTranscript)
           r0 == [IdleAn EXCEPT !.pc = "redis_get", !.event = ev, !.msg = "unacked"]
       IN  SetAn(s, IF ~ev.has_text THEN Raised(r0)
                    ELSE IF TextInvalid(ev.text) THEN Returned(Logged(r0, "skip"))
                    ELSE r0)
    /\ qTranscript' = Tail(qTranscript)
    /\ UNCHANGED <<cache, cache_ttl, db_summary, db_segments, vendorCalls,
                   lastStored, env, cap, db_videos, pipeVars>>

\* a faulty restore that keeps the entity id of the cached analysis
AfterGetMutant(r, c) ==
    IF ~CachedTruthy(c) THEN [Logged(r, "miss") EXCEPT !.pc = "generate"]
    ELSE LET p == ModelValidateJson(c) IN
         IF p.ok
         THEN [Logged(r, "hit") EXCEPT
                  !.pc = "connect", !.path = "hit", !.result = p.value]
         ELSE [Logged(Logged(r, "hit"), "restore_failed") EXCEPT !.pc = "generate"]

\* a faulty restore that trusts the cache and returns without persisting
AfterGetNoPersistMutant(r, c) ==
    IF ~CachedTruthy(c) THEN [Logged(r, "miss") EXCEPT !.pc = "generate"]
    ELSE Returned([Logged(r, "hit") EXCEPT !.path = "hit"])
\* lines 144-155: redis.get, and on a hit the restore of the cached analysis
AfterGet(r, c) ==
    IF ~CachedTruthy(c) THEN [Logged(r, "miss") EXCEPT !.pc = "generate"]
    ELSE LET p == ModelValidateJson(c) IN
         IF p.ok
         THEN [Logged(r, "hit") EXCEPT
                  !.pc = "connect", !.path = "hit",
                  !.result = [p.value EXCEPT !.video_id = r.event.video_id]]
         ELSE [Logged(Logged(r, "hit"), "restore_failed") EXCEPT !.pc = "generate"]

AnRedisGet(s) ==
    /\ an[s].pc = "redis_get"
    /\ \/ /\ SetAn(s, AfterGet(an[s], cache[CacheKey(an[s].event)]))
          /\ env' = env
       \/ /\ CanFault
          /\ SetAn(s, Raised(Logged(an[s], "get_failed")))
          /\ env' = Fault
    /\ UNCHANGED <<qTranscript, cache, cache_ttl, db_summary, db_segments,
                   vendorCalls, lastStored, cap, db_videos, pipeVars>>

\* a faulty vendor path that caches the analysis although the save failed
SaveFailedMutant(r, what) == [Logged(r, what) EXCEPT !.pc = "redis_set"]
\* save_to_postgres raised: on the restore path the except of line 154
\* swallows it and the vendor is asked; otherwise the except of line 212
SaveFailed(r, what) ==
    IF r.path = "hit"
    THEN [Logged(Logged(r, what), "restore_failed") EXCEPT !.pc = "generate"]
    ELSE [Logged(r, what) EXCEPT !.pc = "reject"]

\* save_to_postgres returned: line 153 returns, line 208 goes on to the cache
SaveDone(r) ==
    IF r.path = "hit" THEN Returned(Logged(r, "saved"))
    ELSE [Logged(r, "saved") EXCEPT !.pc = "redis_set"]

\* line 103: asyncpg.connect
AnConnect(s) ==
    /\ an[s].pc = "connect"
    /\ \/ /\ SetAn(s, [Logged(an[s], "connect") EXCEPT !.pc = "upsert"])
          /\ env' = env
       \/ /\ CanFault
          /\ SetAn(s, SaveFailed(an[s], "connect_failed"))
          /\ env' = Fault
    /\ UNCHANGED <<qTranscript, cache, cache_ttl, db_summary, db_segments,
                   vendorCalls, lastStored, cap, db_videos, pipeVars>>

\* lines 111-119: the summary upsert
AfterUpsert(r) ==
    IF r.result.segments = <<>> THEN SaveDone(Logged(r, "upsert"))
    ELSE [Logged(r, "upsert") EXCEPT !.pc = "insert", !.idx = 1]

AnUpsert(s) ==
    /\ an[s].pc = "upsert"
    /\ \/ /\ db_summary' = UpsertSummary(db_summary, an[s].result)
          /\ SetAn(s, AfterUpsert(an[s]))
          /\ env' = env
       \/ /\ CanFault
          /\ SetAn(s, SaveFailed(an[s], "upsert_failed"))
          /\ UNCHANGED db_summary
          /\ env' = Fault
    /\ UNCHANGED <<qTranscript, cache, cache_ttl, db_segments, vendorCalls,
                   lastStored, cap, db_videos, pipeVars>>

\* lines 123-127: one segment insert of the loop
AfterInsert(r) ==
    IF r.idx = Len(r.result.segments) THEN SaveDone(Logged(r, "insert"))
    ELSE [Logged(r, "insert") EXCEPT !.idx = @ + 1]

AnInsert(s) ==
    /\ an[s].pc = "insert"
    /\ \/ /\ db_segments' = InsertSegment(db_segments, an[s].result.video_id,
                                          an[s].result.segments[an[s].idx])
          /\ SetAn(s, AfterInsert(an[s]))
          /\ env' = env
       \/ /\ CanFault
          /\ SetAn(s, SaveFailed(an[s], "insert_failed"))
          /\ UNCHANGED db_segments
          /\ env' = Fault
    /\ UNCHANGED <<qTranscript, cache, cache_ttl, db_summary, vendorCalls,
                   lastStored, cap, db_videos, pipeVars>>

\* lines 190-202: generate_content, the parse of the answer, the id
AfterGenerate(r, text) ==
    LET p == ModelValidateJson(text) IN
    IF p.ok
    THEN [Logged(r, "generate") EXCEPT
             !.pc = "connect", !.path = "miss",
             !.result = [p.value EXCEPT !.video_id = r.event.video_id]]
    ELSE [Logged(Logged(r, "generate"), "malformed") EXCEPT
             !.pc = "reject", !.path = "miss"]

AnGenerate(s) ==
    /\ an[s].pc = "generate"
    /\ vendorCalls' = [vendorCalls EXCEPT ![an[s].event.text] = @ + 1]
    /\ \/ /\ \E text \in VendorResponses :
                SetAn(s, AfterGenerate(an[s], text))
          /\ env' = env
       \/ /\ CanFault
          /\ SetAn(s, AfterGenerate(an[s], Garbage))
          /\ env' = Fault
       \/ /\ CanFault
          /\ SetAn(s, [Logged(an[s], "generate_failed") EXCEPT !.pc = "reject",
                                                           !.path = "miss"])
          /\ env' = Fault
    /\ UNCHANGED <<qTranscript, cache, cache_ttl, db_summary, db_segments,
                   lastStored, cap, db_videos, pipeVars>>

\* line 208: redis.set(cache_key, result.model_dump_json(), ex=86400)
AnRedisSet(s) ==
    /\ an[s].pc = "redis_set"
    /\ \/ /\ cache' = [cache EXCEPT ![CacheKey(an[s].event)] =
                          ModelDumpJson(an[s].result)]
          /\ cache_ttl' = RedisSetEx(cache_ttl, CacheKey(an[s].event))
          /\ lastStored' = [lastStored EXCEPT ![an[s].event.text] = an[s].result]
          /\ SetAn(s, Returned(Logged(an[s], "set")))
          /\ env' = env
       \/ /\ CanFault
          /\ SetAn(s, [Logged(an[s], "set_failed") EXCEPT !.pc = "reject"])
          /\ UNCHANGED <<cache, cache_ttl, lastStored>>
          /\ env' = Fault
    /\ UNCHANGED <<qTranscript, db_summary, db_segments, vendorCalls, cap,
                   db_videos, pipeVars>>

\* lines 212-214: the except of the vendor path rejects the message
AnReject(s) ==
    /\ an[s].pc = "reject"
    /\ SetAn(s, Returned(Rejected(an[s], AnRejectRequeue)))
    /\ qTranscript' = IF AnRejectRequeue THEN Append(qTranscript, an[s].event)
                      ELSE qTranscript
    /\ UNCHANGED <<cache, cache_ttl, db_summary, db_segments, vendorCalls,
                   lastStored, env, cap, db_videos, pipeVars>>

\* the entry expires (ex=86400)
CacheExpire ==
    /\ \E k \in CacheKeys :
          /\ cache[k] # Nil
          /\ cache_ttl[k] # Nil
          /\ cache' = [cache EXCEPT ![k] = Nil]
          /\ cache_ttl' = [cache_ttl EXCEPT ![k] = Nil]
    /\ env' = [env EXCEPT !.expired = TRUE]
    /\ fin' = NoFin
    /\ UNCHANGED dead
    /\ UNCHANGED <<qTranscript, an, db_summary, db_segments, vendorCalls,
                   lastStored, cap, db_videos, pipeVars>>

\* the analyzer process dies: the broker redelivers what it had not settled
AnCrash ==
    /\ env.crashes < MaxCrashes
    /\ InFlight(an) > 0
    /\ qTranscript' = UnsettledOf(an) \o qTranscript
    /\ an' = [s \in Slots |-> IF Busy(an[s]) THEN IdleAn ELSE an[s]]
    /\ env' = [env EXCEPT !.crashes = @ + 1]
    /\ fin' = NoFin
    /\ UNCHANGED dead
    /\ UNCHANGED <<cache, cache_ttl, db_summary, db_segments, vendorCalls,
                   lastStored, cap, db_videos, pipeVars>>

AnStep(s) ==
    \/ AnStart(s) \/ AnRedisGet(s) \/ AnConnect(s) \/ AnUpsert(s) \/ AnInsert(s)
    \/ AnGenerate(s) \/ AnRedisSet(s) \/ AnReject(s)

\* ------------------------------------------------------------ ingestion
FileNames == {"v.mp4"}

\* f"{video_id}/{file.filename}"
VideoKey(id, name) == [dir |-> id, name |-> name]

\* a faulty event that names an object the upload did not write
VideoUploadedPathMutant(id, path) ==
    [video_id |-> id, minio_path |-> VideoKey(id, "other")]
\* VideoUploaded(video_id=, filename=, minio_path=, content_type=): the model
\* keeps its declared fields
VideoUploaded(id, path) == [video_id |-> id, minio_path |-> path]

\* POST /upload: uuid4, put_object, publish; any exception answers 500
UploadVideo ==
    /\ env.source = "upload"
    /\ env.events < MaxEvents
    /\ \E id \in Ids \ env.issued, name \in FileNames :
          LET path == VideoKey(id, name) IN
          \/ /\ videos' = videos \cup {path}
             /\ qVideo' = Append(qVideo, VideoUploaded(id, path))
             /\ fin' = Fin("ingestion", [video_id |-> id, status |-> 200,
                                           body |-> "queued"])
             /\ env' = [env EXCEPT !.events = @ + 1, !.issued = @ \cup {id}]
          \/ /\ CanFault
             /\ UNCHANGED <<videos, qVideo>>
             /\ fin' = Fin("ingestion", [video_id |-> id, status |-> 500,
                                           body |-> "Upload failed"])
             /\ env' = [env EXCEPT !.events = @ + 1, !.issued = @ \cup {id},
                                   !.faulted = TRUE]
          \/ /\ CanFault
             /\ videos' = videos \cup {path}
             /\ UNCHANGED qVideo
             /\ fin' = Fin("ingestion", [video_id |-> id, status |-> 500,
                                           body |-> "Upload failed"])
             /\ env' = [env EXCEPT !.events = @ + 1, !.issued = @ \cup {id},
                                   !.faulted = TRUE]
    /\ UNCHANGED <<qAudio, ex, tr, audio, tmp, cap, db_videos, anVars, dead>>

\* ------------------------------------------------------ audio_extractor
IdleEx == [pc |-> "idle", event |-> VideoUploaded("", VideoKey("", "")),
           log |-> <<>>, msg |-> "none"]

\* f"/tmp/{event.video_id}_input.mp4", f"/tmp/{event.video_id}_output.mp3"
TempVideoPath(ev) == [stem |-> ev.video_id, suffix |-> "_input.mp4"]
TempAudioPath(ev) == [stem |-> ev.video_id, suffix |-> "_output.mp3"]

\* a faulty key that takes its name from the uploaded file
AudioFilenameMutant(ev) == [dir |-> ev.video_id, name |-> ev.minio_path.name]
\* f"{event.video_id}/audio.mp3"
AudioFilename(ev) == [dir |-> ev.video_id, name |-> "audio.mp3"]

\* a faulty event that names the temp file instead of the object
AudioExtractedPathMutant(id, path) ==
    [video_id |-> id, audio_path |-> [dir |-> "tmp", name |-> path.name]]
\* a faulty event that names one fixed entity
AudioExtractedIdMutant(id, path) == [video_id |-> "E1", audio_path |-> path]
\* AudioExtracted(video_id=, audio_path=)
AudioExtracted(id, path) == [video_id |-> id, audio_path |-> path]

SetEx(s, r) ==
    /\ ex' = [ex EXCEPT ![s] = IF r.pc = "done" THEN IdleEx ELSE r]
    /\ fin' = IF r.pc = "done" THEN Fin("audio_extractor", r) ELSE NoFin
    /\ dead' = DeadAfter(r)

\* a faulty reject that puts the event back into video_processing
ExRejectRequeueMutant == TRUE
\* msg.reject(requeue=False)
ExRejectRequeue == FALSE

\* lines 57-63: the call starts
ExStart(s) ==
    /\ LoopFree(ex, s)
    /\ s = FreeSlot(ex)
    /\ InFlight(ex) < cap
    /\ qVideo # <<>>
    /\ SetEx(s, [IdleEx EXCEPT !.pc = "fget", !.event = Head(qVideo),
                                             !.msg = "unacked"])
    /\ qVideo' = Tail(qVideo)
    /\ UNCHANGED <<qAudio, tr, videos, audio, tmp, env, cap, db_videos, anVars>>

\* lines 68-73: fget_object("videos", minio_path, temp_video_path)
ExFget(s) ==
    /\ LoopFree(ex, s)
    /\ ex[s].pc = "fget"
    /\ \/ /\ ex[s].event.minio_path \in videos
          /\ tmp' = tmp \cup {TempVideoPath(ex[s].event)}
          /\ SetEx(s, [Logged(ex[s], "fget") EXCEPT !.pc = "ffmpeg"])
          /\ env' = env
       \/ /\ CanFault
          /\ SetEx(s, [Logged(ex[s], "fget_failed") EXCEPT !.pc = "reject"])
          /\ UNCHANGED tmp
          /\ env' = Fault
    /\ UNCHANGED <<qVideo, qAudio, tr, videos, audio, cap, db_videos, anVars>>

\* line 77: run_ffmpeg(temp_video_path, temp_audio_path)
ExFfmpeg(s) ==
    /\ LoopFree(ex, s)
    /\ ex[s].pc = "ffmpeg"
    /\ \/ /\ TempVideoPath(ex[s].event) \in tmp
          /\ tmp' = tmp \cup {TempAudioPath(ex[s].event)}
          /\ SetEx(s, [Logged(ex[s], "ffmpeg") EXCEPT !.pc = "fput"])
          /\ env' = env
       \/ /\ CanFault
          /\ SetEx(s, [Logged(ex[s], "ffmpeg_failed") EXCEPT !.pc = "reject"])
          /\ UNCHANGED tmp
          /\ env' = Fault
       \/ /\ TempVideoPath(ex[s].event) \notin tmp
          /\ SetEx(s, [Logged(ex[s], "ffmpeg_failed") EXCEPT !.pc = "reject"])
          /\ UNCHANGED <<tmp, env>>
    /\ UNCHANGED <<qVideo, qAudio, tr, videos, audio, cap, db_videos, anVars>>

\* lines 80-86: fput_object("audio", audio_filename, temp_audio_path)
ExFput(s) ==
    /\ LoopFree(ex, s)
    /\ ex[s].pc = "fput"
    /\ \/ /\ TempAudioPath(ex[s].event) \in tmp
          /\ audio' = audio \cup {AudioFilename(ex[s].event)}
          /\ SetEx(s, [Logged(ex[s], "fput") EXCEPT !.pc = "publish"])
          /\ env' = env
       \/ /\ CanFault
          /\ SetEx(s, [Logged(ex[s], "fput_failed") EXCEPT !.pc = "reject"])
          /\ UNCHANGED audio
          /\ env' = Fault
       \/ /\ TempAudioPath(ex[s].event) \notin tmp
          /\ SetEx(s, [Logged(ex[s], "fput_failed") EXCEPT !.pc = "reject"])
          /\ UNCHANGED <<audio, env>>
    /\ UNCHANGED <<qVideo, qAudio, tr, videos, tmp, cap, db_videos, anVars>>

\* a faulty finally that removes the input and leaves the output
ExCleanupMutant(files, ev) == files \ {TempVideoPath(ev)}
\* lines 104-109: the finally removes both temp files
ExCleanup(files, ev) == files \ {TempVideoPath(ev), TempAudioPath(ev)}

\* lines 89-97 and the finally: publish to audio_extracted
ExPublish(s) ==
    /\ LoopFree(ex, s)
    /\ ex[s].pc = "publish"
    /\ \/ /\ qAudio' = Append(qAudio, AudioExtracted(ex[s].event.video_id,
                                                     AudioFilename(ex[s].event)))
          /\ tmp' = ExCleanup(tmp, ex[s].event)
          /\ SetEx(s, [Logged(ex[s], "publish") EXCEPT !.pc = "ack"])
          /\ env' = env
       \/ /\ CanFault
          /\ SetEx(s, [Logged(ex[s], "publish_failed") EXCEPT !.pc = "reject"])
          /\ UNCHANGED <<qAudio, tmp>>
          /\ env' = Fault
    /\ UNCHANGED <<qVideo, tr, videos, audio, cap, db_videos, anVars>>

\* the handler has returned: the message is acked
ExAck(s) ==
    /\ LoopFree(ex, s)
    /\ ex[s].pc = "ack"
    /\ SetEx(s, Returned(ex[s]))
    /\ UNCHANGED <<qVideo, qAudio, tr, videos, audio, tmp, env, cap, db_videos,
                   anVars>>

\* lines 99-109: the except rejects, the finally removes the temp files
ExReject(s) ==
    /\ LoopFree(ex, s)
    /\ ex[s].pc = "reject"
    /\ SetEx(s, Returned(Rejected(ex[s], ExRejectRequeue)))
    /\ tmp' = ExCleanup(tmp, ex[s].event)
    /\ qVideo' = IF ExRejectRequeue THEN Append(qVideo, ex[s].event) ELSE qVideo
    /\ UNCHANGED <<qAudio, tr, videos, audio, env, cap, db_videos, anVars>>

\* the extractor process dies: the broker redelivers what it had not settled
ExCrash ==
    /\ env.crashes < MaxCrashes
    /\ InFlight(ex) > 0
    /\ qVideo' = UnsettledOf(ex) \o qVideo
    /\ ex' = [s \in Slots |-> IF Busy(ex[s]) THEN IdleEx ELSE ex[s]]
    /\ env' = [env EXCEPT !.crashes = @ + 1]
    /\ fin' = NoFin
    /\ UNCHANGED dead
    /\ UNCHANGED <<qAudio, tr, videos, audio, tmp, cap, db_videos, anVars>>

ExStep(s) ==
    \/ ExStart(s) \/ ExFget(s) \/ ExFfmpeg(s) \/ ExFput(s) \/ ExPublish(s)
    \/ ExAck(s) \/ ExReject(s)

\* --------------------------------------------------------- transcription
\* TranscriptReady declares video_id, transcript_json, speaker_segments and
\* timestamp; a keyword that is no field of the model is dropped
TranscriptReady(id, text, json) ==
    [video_id |-> id, has_text |-> FALSE, text |-> <<>>]

IdleTr == [pc |-> "idle", event |-> AudioExtracted("", VideoKey("", "")),
           text |-> <<>>, log |-> <<>>, msg |-> "none"]

\* f"/tmp/{event.video_id}.mp3"
TrTempAudioPath(ev) == [stem |-> ev.video_id, suffix |-> ".mp3"]

SetTr(s, r) ==
    /\ tr' = [tr EXCEPT ![s] = IF r.pc = "done" THEN IdleTr ELSE r]
    /\ fin' = IF r.pc = "done" THEN Fin("transcription", r) ELSE NoFin
    /\ dead' = DeadAfter(r)

\* msg.reject(requeue=False)
TrRejectRequeue == FALSE

\* lines 60-64: the call starts
TrStart(s) ==
    /\ LoopFree(tr, s)
    /\ s = FreeSlot(tr)
    /\ InFlight(tr) < cap
    /\ qAudio # <<>>
    /\ SetTr(s, [IdleTr EXCEPT !.pc = "fget", !.event = Head(qAudio),
                                             !.msg = "unacked"])
    /\ qAudio' = Tail(qAudio)
    /\ UNCHANGED <<qVideo, ex, videos, audio, tmp, env, cap, db_videos, anVars>>

\* lines 69-74: fget_object("audio", audio_path, temp_audio_path)
TrFget(s) ==
    /\ LoopFree(tr, s)
    /\ tr[s].pc = "fget"
    /\ \/ /\ tr[s].event.audio_path \in audio
          /\ tmp' = tmp \cup {TrTempAudioPath(tr[s].event)}
          /\ SetTr(s, [Logged(tr[s], "fget") EXCEPT !.pc = "transcribe"])
          /\ env' = env
       \/ /\ CanFault
          /\ SetTr(s, [Logged(tr[s], "fget_failed") EXCEPT !.pc = "reject"])
          /\ UNCHANGED tmp
          /\ env' = Fault
    /\ UNCHANGED <<qVideo, qAudio, qTranscript, ex, an, videos, audio, cap,
                   db_videos, cache, cache_ttl, db_summary, db_segments,
                   vendorCalls, lastStored>>

\* line 79 with run_transcription: the transcript, or RuntimeError on status error
TrTranscribe(s) ==
    /\ LoopFree(tr, s)
    /\ tr[s].pc = "transcribe"
    /\ \/ /\ TrTempAudioPath(tr[s].event) \in tmp
          /\ \E t \in Texts :
                SetTr(s, [Logged(tr[s], "transcribe") EXCEPT
                                            !.pc = "publish", !.text = t])
          /\ env' = env
       \/ /\ CanFault
          /\ SetTr(s, [Logged(tr[s], "transcribe_failed") EXCEPT !.pc = "reject"])
          /\ env' = Fault
       \/ /\ TrTempAudioPath(tr[s].event) \notin tmp
          /\ SetTr(s, [Logged(tr[s], "transcribe_failed") EXCEPT !.pc = "reject"])
          /\ env' = env
    /\ UNCHANGED <<qVideo, qAudio, qTranscript, ex, an, videos, audio, tmp, cap,
                   db_videos, cache, cache_ttl, db_summary, db_segments,
                   vendorCalls, lastStored>>

\* lines 99-102: the finally removes the temp file
TrCleanup(files, ev) == files \ {TrTempAudioPath(ev)}

\* lines 83-92 and the finally: publish to transcript_ready
TrPublish(s) ==
    /\ LoopFree(tr, s)
    /\ tr[s].pc = "publish"
    /\ \/ /\ qTranscript' = Append(qTranscript,
                                   TranscriptReady(tr[s].event.video_id, tr[s].text,
                                                   tr[s].text))
          /\ tmp' = TrCleanup(tmp, tr[s].event)
          /\ SetTr(s, [Logged(tr[s], "publish") EXCEPT !.pc = "ack"])
          /\ env' = env
       \/ /\ CanFault
          /\ SetTr(s, [Logged(tr[s], "publish_failed") EXCEPT !.pc = "reject"])
          /\ UNCHANGED <<qTranscript, tmp>>
          /\ env' = Fault
    /\ UNCHANGED <<qVideo, qAudio, ex, an, videos, audio, cap, db_videos, cache,
                   cache_ttl, db_summary, db_segments, vendorCalls, lastStored>>

\* the handler has returned: the message is acked
TrAck(s) ==
    /\ LoopFree(tr, s)
    /\ tr[s].pc = "ack"
    /\ SetTr(s, Returned(tr[s]))
    /\ UNCHANGED <<qVideo, qAudio, ex, videos, audio, tmp, env, cap, db_videos,
                   anVars>>

\* lines 94-102: the except rejects, the finally removes the temp file
TrReject(s) ==
    /\ LoopFree(tr, s)
    /\ tr[s].pc = "reject"
    /\ SetTr(s, Returned(Rejected(tr[s], TrRejectRequeue)))
    /\ tmp' = TrCleanup(tmp, tr[s].event)
    /\ qAudio' = IF TrRejectRequeue THEN Append(qAudio, tr[s].event) ELSE qAudio
    /\ UNCHANGED <<qVideo, ex, videos, audio, env, cap, db_videos, anVars>>

\* the transcription process dies: the broker redelivers what it had not settled
TrCrash ==
    /\ env.crashes < MaxCrashes
    /\ InFlight(tr) > 0
    /\ qAudio' = UnsettledOf(tr) \o qAudio
    /\ tr' = [s \in Slots |-> IF Busy(tr[s]) THEN IdleTr ELSE tr[s]]
    /\ env' = [env EXCEPT !.crashes = @ + 1]
    /\ fin' = NoFin
    /\ UNCHANGED dead
    /\ UNCHANGED <<qVideo, ex, videos, audio, tmp, cap, db_videos, anVars>>

TrStep(s) ==
    \/ TrStart(s) \/ TrFget(s) \/ TrTranscribe(s) \/ TrPublish(s)
    \/ TrAck(s) \/ TrReject(s)

\* ------------------------------------------------------------ reporting
\* the rows of analysis_segments of one entity, in id order
SegRowsOf(id) ==
    LET rows == SelectSeq(db_segments, LAMBDA row : row.video_id = id)
    IN  [i \in 1..Len(rows) |-> rows[i].seg]

\* the row of analysis_summary that a saved analysis j leaves
SummaryRow(j) ==
    [kind |-> "row", summary_text |-> j.summary,
     recommendations |-> JsonDumps(j.recommendations)]

\* json.loads(text)
JsonLoads(j) == j.items

\* `json.loads(column) if column else []`: a NULL column gives the empty list
LoadsOrEmpty(column) == IF column = Nil THEN <<>> ELSE JsonLoads(column)

\* a faulty lookup that finds every id in videos
VideoExistsMutant(id) == TRUE
\* SELECT 1 FROM videos WHERE id = $1
VideoExists(id) == id \in db_videos

NoBody == [kind |-> "none"]

\* lines 77-127: what GET /videos/{video_id} answers when its queries succeed
VideoDetail(id) ==
    LET summary_row == db_summary[id] IN
    IF summary_row = Nil
    THEN IF VideoExists(id)
         THEN [video_id |-> id, status |-> 404,
               detail |-> "Analysis not found (or processing)", body |-> NoBody]
         ELSE [video_id |-> id, status |-> 404, detail |-> "Video not found",
               body |-> NoBody]
    ELSE [video_id |-> id, status |-> 200, detail |-> "",
          body |-> [video_id |-> id,
                    summary |-> summary_row.summary_text,
                    recommendations |-> LoadsOrEmpty(summary_row.recommendations),
                    transcript_segments |-> SegRowsOf(id)]]

\* GET /videos/{video_id}; a connect or a query that raises leaves the
\* handler as an unhandled exception, which FastAPI answers with 500
GetVideoAnalysis ==
    /\ \E id \in Ids :
          \/ fin' = Fin("reporting", VideoDetail(id))
          \/ /\ CanFault
             /\ fin' = Fin("reporting",
                           [video_id |-> id, status |-> 500,
                            detail |-> "Internal Server Error", body |-> NoBody])
    /\ UNCHANGED <<env, cap, db_videos, anVars, pipeVars, dead>>
\* ------------------------------------------------------ specifications
Init ==
    /\ qVideo = <<>> /\ qAudio = <<>> /\ qTranscript = <<>>
    /\ ex = [s \in Slots |-> IdleEx]
    /\ tr = [s \in Slots |-> IdleTr]
    /\ an = [s \in Slots |-> IdleAn]
    /\ videos = {} /\ audio = {} /\ tmp = {}
    /\ cache = [k \in CacheKeys |-> Nil]
    /\ cache_ttl = [k \in CacheKeys |-> Nil]
    /\ db_summary = [i \in Ids |-> Nil]
    /\ db_segments = <<>>
    /\ db_videos = {}
    /\ vendorCalls = [t \in Texts |-> 0]
    /\ lastStored = [t \in Texts |-> NoResult]
    /\ \E src \in {"upload", "transcript"} :
          env = [source |-> src, events |-> 0, faulted |-> FALSE, crashes |-> 0,
                 expired |-> FALSE, issued |-> {}, repeated |-> FALSE]
    /\ cap = 1
    /\ fin = NoFin
    /\ dead = {}

Next ==
    \/ UploadVideo
    \/ DeliverTranscript
    \/ \E s \in Slots : ExStep(s)
    \/ \E s \in Slots : TrStep(s)
    \/ \E s \in Slots : AnStep(s)
    \/ CacheExpire
    \/ ExCrash
    \/ TrCrash
    \/ AnCrash

Spec == Init /\ [][Next]_vars

\* the analyzer alone, handling up to two deliveries at once
InitConc ==
    /\ qVideo = <<>> /\ qAudio = <<>> /\ qTranscript = <<>>
    /\ ex = [s \in Slots |-> IdleEx]
    /\ tr = [s \in Slots |-> IdleTr]
    /\ an = [s \in Slots |-> IdleAn]
    /\ videos = {} /\ audio = {} /\ tmp = {}
    /\ cache = [k \in CacheKeys |-> Nil]
    /\ cache_ttl = [k \in CacheKeys |-> Nil]
    /\ db_summary = [i \in Ids |-> Nil]
    /\ db_segments = <<>>
    /\ db_videos = {}
    /\ vendorCalls = [t \in Texts |-> 0]
    /\ lastStored = [t \in Texts |-> NoResult]
    /\ env = [source |-> "transcript", events |-> 0, faulted |-> FALSE,
              crashes |-> 0, expired |-> FALSE, issued |-> {}, repeated |-> FALSE]
    /\ cap = 2
    /\ fin = NoFin
    /\ dead = {}

NextConc ==
    \/ DeliverTranscript
    \/ \E s \in Slots : AnStep(s)
    \/ CacheExpire
    \/ AnCrash

SpecConc == InitConc /\ [][NextConc]_vars

\* the reporting service alone, over the tables as it may find them: any
\* rows the analyzer can have written, and any rows in videos
SegmentTables ==
    { <<>>,
      <<[video_id |-> "E1", seg |-> "g1"]>>,
      <<[video_id |-> "E1", seg |-> "g1"], [video_id |-> "E2", seg |-> "g1"],
        [video_id |-> "E1", seg |-> "g2"]>>,
      <<[video_id |-> "E2", seg |-> "g1"], [video_id |-> "E2", seg |-> "g1"]>> }

InitReport ==
    /\ qVideo = <<>> /\ qAudio = <<>> /\ qTranscript = <<>>
    /\ ex = [s \in Slots |-> IdleEx]
    /\ tr = [s \in Slots |-> IdleTr]
    /\ an = [s \in Slots |-> IdleAn]
    /\ videos = {} /\ audio = {} /\ tmp = {}
    /\ cache = [k \in CacheKeys |-> Nil]
    /\ cache_ttl = [k \in CacheKeys |-> Nil]
    /\ db_summary \in [Ids -> {Nil} \cup {SummaryRow(j) : j \in VendorResponses}]
    /\ db_segments \in SegmentTables
    /\ db_videos \in SUBSET Ids
    /\ vendorCalls = [t \in Texts |-> 0]
    /\ lastStored = [t \in Texts |-> NoResult]
    /\ env = [source |-> "none", events |-> 0, faulted |-> FALSE,
              crashes |-> 0, expired |-> FALSE, issued |-> {}, repeated |-> FALSE]
    /\ cap = 1
    /\ fin = NoFin
    /\ dead = {}

NextReport == GetVideoAnalysis

SpecReport == InitReport /\ [][NextReport]_vars
\* the analyzer alone, one call at a time, started over a cache in which
\* some keys hold a value that the present FullAnalysis does not parse (an
\* entry of an earlier deployment, still within its 24 hours)
StaleKeys == {[prefix |-> "analysis:", hash |-> Sha256(t)] : t \in {<<"a">>, <<"b">>}}

InitStale ==
    /\ qVideo = <<>> /\ qAudio = <<>> /\ qTranscript = <<>>
    /\ ex = [s \in Slots |-> IdleEx]
    /\ tr = [s \in Slots |-> IdleTr]
    /\ an = [s \in Slots |-> IdleAn]
    /\ videos = {} /\ audio = {} /\ tmp = {}
    /\ \E K \in SUBSET StaleKeys :
          /\ K # {}
          /\ cache = [k \in CacheKeys |-> IF k \in K THEN Garbage ELSE Nil]
          /\ cache_ttl = RedisSetExAll(K)
    /\ db_summary = [i \in Ids |-> Nil]
    /\ db_segments = <<>>
    /\ db_videos = {}
    /\ vendorCalls = [t \in Texts |-> 0]
    /\ lastStored = [t \in Texts |-> NoResult]
    /\ env = [source |-> "transcript", events |-> 0, faulted |-> FALSE,
              crashes |-> 0, expired |-> FALSE, issued |-> {}, repeated |-> FALSE]
    /\ cap = 1
    /\ fin = NoFin
    /\ dead = {}

SpecStale == InitStale /\ [][NextConc]_vars
\* the pipeline when an external call may also never return: no call is made
\* with a timeout, so the handler then stays at its await for good (until
\* the process dies)
BlockingEx == {"fget", "ffmpeg", "fput"}
BlockingTr == {"fget", "transcribe"}
BlockingAn == {"generate"}

ExHang(s) ==
    /\ ex[s].pc \in BlockingEx
    /\ ex' = [ex EXCEPT ![s].pc = "hung"]
    /\ fin' = NoFin
    /\ UNCHANGED <<qVideo, qAudio, tr, videos, audio, tmp, env, cap, db_videos,
                   anVars, dead>>

TrHang(s) ==
    /\ tr[s].pc \in BlockingTr
    /\ tr' = [tr EXCEPT ![s].pc = "hung"]
    /\ fin' = NoFin
    /\ UNCHANGED <<qVideo, qAudio, ex, videos, audio, tmp, env, cap, db_videos,
                   anVars, dead>>

AnHang(s) ==
    /\ an[s].pc \in BlockingAn
    /\ an' = [an EXCEPT ![s].pc = "hung"]
    /\ fin' = NoFin
    /\ UNCHANGED <<qTranscript, cache, cache_ttl, db_summary, db_segments,
                   vendorCalls, lastStored, env, cap, db_videos, pipeVars, dead>>

NextHang ==
    \/ Next
    \/ \E s \in Slots : ExHang(s)
    \/ \E s \in Slots : TrHang(s)
    \/ \E s \in Slots : AnHang(s)

SpecHang ==
    /\ Init /\ [][NextHang]_vars
    /\ WF_vars(\E s \in Slots : ExStep(s))
    /\ WF_vars(\E s \in Slots : TrStep(s))
    /\ WF_vars(\E s \in Slots : AnStep(s))
\* extraction and transcription handling up to two deliveries at once
InitPipe ==
    /\ qVideo = <<>> /\ qAudio = <<>> /\ qTranscript = <<>>
    /\ ex = [s \in Slots |-> IdleEx]
    /\ tr = [s \in Slots |-> IdleTr]
    /\ an = [s \in Slots |-> IdleAn]
    /\ videos = {} /\ audio = {} /\ tmp = {}
    /\ cache = [k \in CacheKeys |-> Nil]
    /\ cache_ttl = [k \in CacheKeys |-> Nil]
    /\ db_summary = [i \in Ids |-> Nil]
    /\ db_segments = <<>>
    /\ db_videos = {}
    /\ vendorCalls = [t \in Texts |-> 0]
    /\ lastStored = [t \in Texts |-> NoResult]
    /\ env = [source |-> "upload", events |-> 0, faulted |-> FALSE,
              crashes |-> 0, expired |-> FALSE, issued |-> {}, repeated |-> FALSE]
    /\ cap = 2
    /\ fin = NoFin
    /\ dead = {}

NextPipe ==
    \/ UploadVideo
    \/ \E s \in Slots : ExStep(s)
    \/ \E s \in Slots : TrStep(s)
    \/ ExCrash
    \/ TrCrash

SpecPipe == InitPipe /\ [][NextPipe]_vars
\* the analyzer, one call at a time, with the reporting service reading the
\* tables it writes
InitRead ==
    /\ qVideo = <<>> /\ qAudio = <<>> /\ qTranscript = <<>>
    /\ ex = [s \in Slots |-> IdleEx]
    /\ tr = [s \in Slots |-> IdleTr]
    /\ an = [s \in Slots |-> IdleAn]
    /\ videos = {} /\ audio = {} /\ tmp = {}
    /\ cache = [k \in CacheKeys |-> Nil]
    /\ cache_ttl = [k \in CacheKeys |-> Nil]
    /\ db_summary = [i \in Ids |-> Nil]
    /\ db_segments = <<>>
    /\ db_videos = {}
    /\ vendorCalls = [t \in Texts |-> 0]
    /\ lastStored = [t \in Texts |-> NoResult]
    /\ env = [source |-> "transcript", events |-> 0, faulted |-> FALSE,
              crashes |-> 0, expired |-> FALSE, issued |-> {}, repeated |-> FALSE]
    /\ cap = 1
    /\ fin = NoFin
    /\ dead = {}

NextRead ==
    \/ NextConc
    \/ GetVideoAnalysis

SpecRead == InitRead /\ [][NextRead]_vars
\* ------------------------------------------------------------------ claims
\* save_to_postgres as a whole, when no statement fails
RECURSIVE InsertSegments(_, _, _, _)
InsertSegments(segments, vid, segs, i) ==
    IF i > Len(segs) THEN segments
    ELSE InsertSegments(InsertSegment(segments, vid, segs[i]), vid, segs, i + 1)

SaveToPostgres(db, r) ==
    [summary |-> UpsertSummary(db.summary, r),
     segments |-> InsertSegments(db.segments, r.video_id, r.segments, 1)]

Has(log, what) == \E i \in 1..Len(log) : log[i] = what
Count(log, what) == Cardinality({i \in 1..Len(log) : log[i] = what})

Quiescent ==
    /\ qVideo = <<>> /\ qAudio = <<>> /\ qTranscript = <<>>
    /\ InFlight(ex) = 0 /\ InFlight(tr) = 0 /\ InFlight(an) = 0

\* C1: saving the same analysis record twice leaves analysis_summary and
\* analysis_segments as saving it once does.
C1_IdempotentPersistence ==
    \A id \in Ids, j \in VendorResponses :
        LET r == [ModelValidateJson(j).value EXCEPT !.video_id = id]
            once == SaveToPostgres([summary |-> db_summary,
                                    segments |-> db_segments], r)
        IN  SaveToPostgres(once, r) = once

\* C2: when one event was emitted and nothing failed, then however often the
\* broker delivered it, the stores end as one delivery leaves them: for every
\* entity no analysis at all, or the summary and exactly the segments of one
\* analysis.
C2_RedeliveryHarmless ==
    (Quiescent /\ env.events = 1 /\ ~env.faulted) =>
        \A id \in Ids :
            \/ db_summary[id] = Nil /\ SegRowsOf(id) = <<>>
            \/ \E j \in VendorResponses :
                  db_summary[id] = SummaryRow(j) /\ SegRowsOf(id) = j.segments

\* the call that ended in the last step, when it is one of the given stage
Ended(stage) == fin.stage = stage

\* C3: with one call at a time and nothing failing, crashed or expired, the
\* vendor is called at most once per transcript text, exactly once when a
\* call for that text has finished; a call that restores from the cache calls
\* no vendor, persists the restored analysis under its own entity and is acked.
C3_CacheHitShortCircuit ==
    /\ (cap = 1 /\ ~env.faulted /\ env.crashes = 0 /\ ~env.expired) =>
          /\ \A t \in Texts : vendorCalls[t] <= 1
          /\ (Ended("analyzer") /\ fin.call.event.has_text
                /\ ~Has(fin.call.log, "skip")) =>
                 vendorCalls[fin.call.event.text] = 1
    /\ (cap = 1 /\ Ended("analyzer") /\ Has(fin.call.log, "hit")
          /\ ~Has(fin.call.log, "restore_failed")) =>
          /\ ~Has(fin.call.log, "generate")
          /\ Has(fin.call.log, "saved")
          /\ db_summary[fin.call.event.video_id] = SummaryRow(fin.call.result)
          /\ SegRowsOf(fin.call.event.video_id) # <<>>
          /\ fin.call.msg = "acked"

C3_Witness ==
    /\ Ended("analyzer") /\ Has(fin.call.log, "hit") /\ Has(fin.call.log, "saved")
    /\ vendorCalls[fin.call.event.text] = 1
    /\ env.events = 2 /\ ~env.faulted /\ env.crashes = 0 /\ ~env.expired
    /\ lastStored[fin.call.event.text].video_id # fin.call.event.video_id

\* C4: in a finished call of any stage, a failed external operation is followed
\* by no later step, the call persisted and published nothing, and the
\* message is rejected without requeue.
C4_FatalFailureNoSideEffect ==
    /\ (Ended("audio_extractor") /\ Has(fin.call.log, "fget_failed")) =>
          /\ fin.call.log = <<"fget_failed", "reject">>
          /\ fin.call.msg = "rejected"
    /\ (Ended("audio_extractor") /\ Has(fin.call.log, "ffmpeg_failed")) =>
          /\ fin.call.log = <<"fget", "ffmpeg_failed", "reject">>
          /\ fin.call.msg = "rejected"
    /\ (Ended("transcription") /\ Has(fin.call.log, "fget_failed")) =>
          /\ fin.call.log = <<"fget_failed", "reject">>
          /\ fin.call.msg = "rejected"
    /\ (Ended("transcription") /\ Has(fin.call.log, "transcribe_failed")) =>
          /\ fin.call.log = <<"fget", "transcribe_failed", "reject">>
          /\ fin.call.msg = "rejected"
    /\ (Ended("analyzer") /\ Has(fin.call.log, "generate_failed")) =>
          /\ ~Has(fin.call.log, "upsert") /\ ~Has(fin.call.log, "insert")
          /\ ~Has(fin.call.log, "set")
          /\ fin.call.msg = "rejected"

\* C5: a call whose transcript text is empty or only whitespace does nothing
\* but skip: no cache lookup, no vendor call, no save, no cache store, no
\* reject, and the message is acked.
OnlyWhitespace(t) == \A i \in 1..Len(t) : t[i] = " "

C5_ValidationShortCircuit ==
    /\ \A s \in Slots :
          Busy(an[s]) => ~(an[s].event.has_text /\ OnlyWhitespace(an[s].event.text))
    /\ (Ended("analyzer") /\ fin.call.event.has_text
          /\ OnlyWhitespace(fin.call.event.text)) =>
          /\ fin.call.log = <<"skip">>
          /\ fin.call.msg = "acked"

C5_Witness ==
    /\ Ended("analyzer") /\ fin.call.event.text = <<" ">>
    /\ fin.call.event.has_text /\ fin.call.msg = "acked"

\* C6: every finished call of every stage is either acked or rejected, never
\* requeued and never rejected twice; a call in which the vendor, the object
\* store, the sink or the publish failed, or the vendor's response was
\* malformed, ends rejected, with exactly one reject.
SaveFailKinds == {"connect_failed", "upsert_failed", "insert_failed"}
FatalKinds ==
    {"fget_failed", "ffmpeg_failed", "fput_failed", "publish_failed",
     "transcribe_failed", "generate_failed", "malformed"} \cup SaveFailKinds

Unrecovered(log) == \E i \in 1..Len(log) : log[i] \in FatalKinds

Settled(r) ==
    /\ r.msg \in {"acked", "rejected"}
    /\ Count(r.log, "reject") <= 1
    /\ Unrecovered(r.log) => r.msg = "rejected" /\ Count(r.log, "reject") = 1

C6_TerminalReject ==
    (Ended("audio_extractor") \/ Ended("transcription") \/ Ended("analyzer")) =>
        Settled(fin.call)

\* C7: a call whose cache lookup failed goes on as on a miss: it calls the
\* vendor and is not rejected.
C7_CacheLookupFailureIsMiss ==
    (Ended("analyzer") /\ Has(fin.call.log, "get_failed")) =>
        /\ Has(fin.call.log, "generate")
        /\ fin.call.msg # "rejected"

\* C8: a call that persisted the vendor's result and whose cache store then
\* failed ends acked.
C8_CacheStoreFailureTolerated ==
    (Ended("analyzer") /\ Has(fin.call.log, "saved")
        /\ Has(fin.call.log, "set_failed")) =>
        fin.call.msg = "acked"

\* C9: after a failed save, on the restore path as on the vendor path, the
\* call makes no vendor call and no cache store, and it ends rejected.
NothingAfterSaveFailure(log) ==
    \A i \in 1..Len(log) :
        log[i] \in SaveFailKinds =>
            \A j \in (i + 1)..Len(log) :
                log[j] \notin {"generate", "generate_failed", "set"}

C9_SinkFailureFatal ==
    /\ \A s \in Slots : NothingAfterSaveFailure(an[s].log)
    /\ Ended("analyzer") =>
          /\ NothingAfterSaveFailure(fin.call.log)
          /\ (\E i \in 1..Len(fin.call.log) : fin.call.log[i] \in SaveFailKinds)
                => fin.call.msg = "rejected"

\* C10: what the cache holds for a transcript text is the analysis last
\* stored for that text, and it is there unless an entry expired; the
\* analysis a call restores equals the one stored, but for the entity id,
\* which is the one of the call's event.
BlankId(r) == [r EXCEPT !.video_id = ""]

C10_CacheCorrectness ==
    /\ \A t \in Texts :
          LET c == cache[CacheKey([text |-> t])] IN
          /\ c # Nil => /\ ModelValidateJson(c).ok
                        /\ ModelValidateJson(c).value = lastStored[t]
          /\ (~env.expired /\ lastStored[t] # NoResult) => c # Nil
    /\ \A s \in Slots :
          (cap = 1 /\ an[s].path = "hit") =>
              /\ BlankId(an[s].result) = BlankId(lastStored[an[s].event.text])
              /\ an[s].result.video_id = an[s].event.video_id

C10_Witness ==
    /\ an["w1"].path = "hit" /\ an["w1"].pc = "insert"
    /\ lastStored[an["w1"].event.text].video_id # an["w1"].event.video_id
    /\ Len(an["w1"].result.segments) = 2

\* C11: once a value has been stored in the cache for a transcript text,
\* every later store for that text, also by a call that runs at the same
\* time, stores an equal value.
C11_EqualValuesPerFingerprint ==
    [][\A t \in Texts :
          (lastStored[t] # NoResult /\ lastStored'[t] # lastStored[t]) =>
              ModelDumpJson(lastStored'[t]) = ModelDumpJson(lastStored[t])]_vars

\* C12: while no cache entry has expired, the vendor has been called at most
\* once for each transcript text, whatever the interleaving of the calls.
C12_AtMostOneExecution ==
    ~env.expired => \A t \in Texts : vendorCalls[t] <= 1

\* the stages that hold an event of entity id: waiting in the stage's queue,
\* or delivered to a call of the stage for which Held(call) is true
Waits(q, id) == \E i \in 1..Len(q) : q[i].video_id = id
Handles(f, id, Held(_)) ==
    \E s \in Slots : Busy(f[s]) /\ f[s].event.video_id = id /\ Held(f[s])
StagesHolding(id, Held(_)) ==
    {st \in {"audio_extractor", "transcription", "analyzer"} :
        \/ st = "audio_extractor" /\ (Waits(qVideo, id) \/ Handles(ex, id, Held))
        \/ st = "transcription" /\ (Waits(qAudio, id) \/ Handles(tr, id, Held))
        \/ st = "analyzer" /\ (Waits(qTranscript, id) \/ Handles(an, id, Held))}

Unacked(r) == r.msg = "unacked"
NotYetEmitted(r) == r.pc # "ack"

\* C13 as claimed: an entity has an unacknowledged event, waiting or
\* delivered, in the queue of at most one stage at a time.
C13_OneActiveStage_Claimed ==
    \A id \in Ids : Cardinality(StagesHolding(id, Unacked)) <= 1

\* C13: while no service has crashed, an entity has an event waiting, or
\* delivered to a call that has not yet published its output, in at most one
\* stage at a time.
C13_OneActiveStage ==
    env.crashes = 0 =>
        \A id \in Ids : Cardinality(StagesHolding(id, NotYetEmitted)) <= 1

C13_Witness ==
    /\ env.crashes = 0
    /\ ex["w1"].pc = "ack" /\ ex["w1"].event.video_id = "E2"
    /\ Waits(qAudio, "E2") /\ Waits(qVideo, "E1")

\* C14: every audio_extracted event, waiting or being handled by the
\* transcription stage, names an object that is in the audio bucket, and it
\* is the audio object of the event's own entity; so no event of an entity is
\* downstream of the extractor before that entity's audio is stored, crash or
\* no crash.
C14_PersistBeforeEmit ==
    /\ \A i \in 1..Len(qAudio) :
          /\ qAudio[i].audio_path \in audio
          /\ qAudio[i].audio_path = AudioFilename(qAudio[i])
    /\ \A s \in Slots : Busy(tr[s]) => tr[s].event.audio_path \in audio
    /\ \A id \in Ids :
          (Waits(qAudio, id) \/ (env.source = "upload" /\ Waits(qTranscript, id)))
              => [dir |-> id, name |-> "audio.mp3"] \in audio

C14_Witness ==
    /\ env.crashes = 1 /\ Waits(qAudio, "E1")
    /\ ex["w1"].pc = "fput" /\ ex["w1"].event.video_id = "E2"
    /\ [dir |-> "E2", name |-> "audio.mp3"] \notin audio

\* C15: a call of the extractor or of the transcription stage that ends
\* acked has published its output event as its last step before the ack, and
\* a call that has not ended has not acked; so no step, a crash included,
\* takes an entity out of the pipeline: an entity that some stage holds is
\* still held after the step, unless the step dead-letters it or is the end
\* of its analyzer call.
AnyCall(r) == TRUE
InPipeline(id) == StagesHolding(id, AnyCall) # {}

PublishedBeforeAck ==
    /\ (Ended("audio_extractor") /\ fin.call.msg = "acked")
          => fin.call.log = <<"fget", "ffmpeg", "fput", "publish">>
    /\ (Ended("transcription") /\ fin.call.msg = "acked")
          => fin.call.log = <<"fget", "transcribe", "publish">>
    /\ \A s \in Slots :
          /\ Busy(ex[s]) => ex[s].msg = "unacked"
          /\ Busy(tr[s]) => tr[s].msg = "unacked"
          /\ ex[s].pc = "ack" <=> Has(ex[s].log, "publish")
          /\ tr[s].pc = "ack" <=> Has(tr[s].log, "publish")

C15_EmitThenAck ==
    /\ []PublishedBeforeAck
    /\ [][\A id \in Ids :
            (InPipeline(id) /\ ~InPipeline(id)') =>
                (\/ id \in dead'
                 \/ fin'.stage = "analyzer" /\ fin'.call.event.video_id = id)]_vars

C15_Witness ==
    /\ Ended("audio_extractor") /\ fin.call.msg = "acked" /\ env.crashes = 1
    /\ Len(qAudio) = 2 /\ qAudio[1] = qAudio[2]

\* the stages take their steps: no call that can go on waits for ever
FairSpec ==
    /\ Spec
    /\ WF_vars(\E s \in Slots : ExStep(s))
    /\ WF_vars(\E s \in Slots : TrStep(s))
    /\ WF_vars(\E s \in Slots : AnStep(s))

Analyzed(id) == db_summary[id] # Nil

C17_EndToEndFlow ==
    (env.source = "upload" /\ ~env.faulted /\ env.crashes = 0
        /\ Ended("analyzer")) =>
        /\ Analyzed(fin.call.event.video_id)
        /\ SegRowsOf(fin.call.event.video_id) # <<>>

\* C18: the event the transcription stage publishes carries the text its
\* vendor returned, and the analyzer call that takes that event reads that
\* text: it does not end on an exception before validating it.
C18_TranscriptTextReachesAnalysis ==
    [][/\ \A s \in Slots :
            (tr[s].pc = "publish" /\ tr'[s].pc = "ack") =>
                /\ qTranscript'[Len(qTranscript')].has_text
                /\ qTranscript'[Len(qTranscript')].text = tr[s].text
       /\ (env.source = "upload" /\ fin'.stage = "analyzer") =>
              ~Has(fin'.call.log, "raise")]_vars

\* C19: every event in a queue names an entity that entered the pipeline,
\* and an audio_extracted event names its own entity's object; an event a
\* stage publishes has the entity id of the event its call consumed; the
\* analysis a call persists has the id of the call's event, also when it was
\* restored from a cache entry written for another entity, and every row
\* written is keyed by it.
IdsKept ==
    /\ \A i \in 1..Len(qAudio) :
          /\ qAudio[i].video_id \in env.issued
          /\ qAudio[i].audio_path.dir = qAudio[i].video_id
    /\ \A i \in 1..Len(qTranscript) : qTranscript[i].video_id \in env.issued
    /\ \A s \in Slots :
          an[s].pc \in {"connect", "upsert", "insert", "redis_set"} =>
              an[s].result.video_id = an[s].event.video_id
    /\ \A id \in Ids : db_summary[id] # Nil => id \in env.issued
    /\ \A i \in 1..Len(db_segments) : db_segments[i].video_id \in env.issued

IdsPassedOn ==
    /\ \A s \in Slots :
          /\ (ex[s].pc = "publish" /\ ex'[s].pc = "ack") =>
                qAudio'[Len(qAudio')].video_id = ex[s].event.video_id
          /\ (tr[s].pc = "publish" /\ tr'[s].pc = "ack") =>
                qTranscript'[Len(qTranscript')].video_id = tr[s].event.video_id
    /\ \A id \in Ids :
          db_summary'[id] # db_summary[id] =>
              \E s \in Slots : an[s].pc = "upsert" /\ an[s].event.video_id = id
    /\ db_segments' # db_segments =>
          \E s \in Slots :
              /\ an[s].pc = "insert"
              /\ db_segments' = Append(db_segments,
                                       [video_id |-> an[s].event.video_id,
                                        seg |-> an[s].result.segments[an[s].idx]])

C19_StableEntityId == []IdsKept /\ [][IdsPassedOn]_vars

C19_Witness ==
    /\ an["w1"].path = "hit" /\ an["w1"].pc = "insert" /\ an["w1"].idx = 2
    /\ lastStored[an["w1"].event.text].video_id = "E1"
    /\ an["w1"].event.video_id = "E2"
    /\ db_summary["E2"] # Nil

\* C20: the step in which a call rejects its message puts nothing into any
\* queue, writes nothing to the stores, and settles the message as rejected
\* for good; and in a run in which every entity has one delivery per stage
\* (none delivered twice from outside, none duplicated by a crash between
\* publish and ack), a dead-lettered entity is in no queue and in no call
\* from then on, and no later step writes to the stores for it.
NoGrowth(q) == q' = q \/ (q # <<>> /\ q' = Tail(q))

RejectIsFinal ==
    (fin'.stage \in {"audio_extractor", "transcription", "analyzer"}
        /\ (Has(fin'.call.log, "reject") \/ Has(fin'.call.log, "raise"))) =>
        /\ fin'.call.msg = "rejected"
        /\ NoGrowth(qVideo) /\ NoGrowth(qAudio) /\ NoGrowth(qTranscript)
        /\ UNCHANGED <<videos, audio, cache, cache_ttl, db_summary, db_segments>>

OneDeliveryEach ==
    ~env.repeated /\ (env.source = "transcript" \/ env.crashes = 0)

\* some stage has an event of the entity waiting or in a call that has yet to
\* publish (a call that has published and only awaits its ack does no more)
Active(id) == StagesHolding(id, NotYetEmitted) # {}

DeadStaysDead ==
    \A id \in dead :
        /\ OneDeliveryEach => ~Active(id)
        /\ OneDeliveryEach' =>
              /\ ~Active(id)'
              /\ db_summary'[id] = db_summary[id]
              /\ SegRowsOf(id)' = SegRowsOf(id)
              /\ ([dir |-> id, name |-> "audio.mp3"] \in audio'
                    <=> [dir |-> id, name |-> "audio.mp3"] \in audio)

C20_DeadLetteredNotResumed == [][RejectIsFinal /\ DeadStaysDead]_vars

C20_Witness ==
    /\ "E1" \in dead /\ db_summary["E1"] # Nil /\ SegRowsOf("E1") = <<>>
    /\ ~env.repeated /\ env.crashes = 1
    /\ Ended("analyzer") /\ fin.call.event.video_id = "E2"
    /\ fin.call.msg = "acked" /\ Has(fin.call.log, "saved")

\* C21: ingestion publishes to video_processing only what it has written to
\* the object store: every event waiting in the queue names an object of the
\* bucket, an upload answered 200 has stored its file and queued one event
\* for it, and an upload whose file is not in the bucket afterwards (the
\* write failed) is answered 500 "Upload failed" and leaves the queue as it
\* was; every answer other than 200 is that one.
QueuedVideosStored ==
    \A i \in 1..Len(qVideo) : qVideo[i].minio_path \in videos

UploadAnswered ==
    fin'.stage = "ingestion" =>
        LET path == VideoKey(fin'.call.video_id, "v.mp4") IN
        /\ fin'.call.status = 200 =>
              /\ fin'.call.body = "queued"
              /\ path \in videos'
              /\ qVideo' = Append(qVideo, VideoUploaded(fin'.call.video_id, path))
        /\ fin'.call.status # 200 =>
              /\ fin'.call.status = 500 /\ fin'.call.body = "Upload failed"
              /\ qVideo' = qVideo
        /\ path \notin videos' => (fin'.call.status = 500 /\ qVideo' = qVideo)

C21_PublishAfterWrite == []QueuedVideosStored /\ [][UploadAnswered]_vars

C21_Witness ==
    /\ fin.stage = "ingestion" /\ fin.call.status = 500
    /\ fin.call.body = "Upload failed"
    /\ VideoKey(fin.call.video_id, "v.mp4") \notin videos
    /\ Len(qVideo) = 1 /\ qVideo[1].video_id # fin.call.video_id

\* C22: every upload is recorded in the videos table: each entity an upload
\* made an id for, whether or not its file reached the object store, has a
\* row in videos.
C22_UploadRecorded ==
    env.source = "upload" => \A id \in env.issued : id \in db_videos

\* C23: a detail request whose queries succeed is answered 200 exactly when
\* analysis_summary has a row for the id, and then with that row's summary,
\* its recommendations and the entity's segment rows in id order; otherwise
\* it is answered 404, with "Analysis not found (or processing)" when videos
\* has a row for the id and "Video not found" when it has none.
C23_DetailView ==
    (Ended("reporting") /\ fin.call.status # 500) =>
        LET id == fin.call.video_id IN
        /\ fin.call.status = 200 <=> db_summary[id] # Nil
        /\ fin.call.status = 200 =>
              /\ fin.call.body.video_id = id
              /\ fin.call.body.summary = db_summary[id].summary_text
              /\ fin.call.body.recommendations = db_summary[id].recommendations.items
              /\ fin.call.body.transcript_segments = SegRowsOf(id)
        /\ fin.call.status # 200 =>
              /\ fin.call.status = 404 /\ fin.call.body = NoBody
              /\ id \in db_videos =>
                    fin.call.detail = "Analysis not found (or processing)"
              /\ id \notin db_videos => fin.call.detail = "Video not found"

C23_Witness ==
    /\ Ended("reporting") /\ fin.call.video_id = "E1" /\ fin.call.status = 404
    /\ fin.call.detail = "Video not found"
    /\ db_videos = {"E2"} /\ db_summary["E2"] # Nil
    /\ SegRowsOf("E1") # <<>>

\* C24: the analysis stage is terminal: no step of a handle_transcript call,
\* on the restore path, the vendor path, the skip or a failure, puts an event
\* into any queue; such a step writes at most to analysis_summary,
\* analysis_segments and the cache.
AnalyzerStep == an' # an /\ env'.crashes = env.crashes

C24_AnalysisTerminal ==
    [][AnalyzerStep =>
          /\ qVideo' = qVideo /\ qAudio' = qAudio
          /\ NoGrowth(qTranscript)
          /\ UNCHANGED <<videos, audio, tmp, db_videos>>]_vars

C24_Witness ==
    /\ Ended("analyzer") /\ fin.call.path = "hit" /\ fin.call.msg = "acked"
    /\ Has(fin.call.log, "saved")
    /\ env.faulted /\ env.events = MaxEvents
    /\ qVideo = <<>> /\ qAudio = <<>> /\ qTranscript = <<>>

\* C25: the stages form one chain.  An event leaves a queue only into a call
\* of the one stage that subscribes to it (video_processing: extraction,
\* audio_extracted: transcription, transcript_ready: analysis).  Apart from
\* redelivery after a crash, video_processing grows only by an upload, and
\* audio_extracted and (in a run fed by uploads) transcript_ready grow only
\* in the publish step of extraction and of transcription, by one event of
\* the call's entity, with no other queue touched.  A call of extraction or
\* transcription that ends acked has published exactly once, one that ends
\* rejected has published nothing.
Taken(q) == q # <<>> /\ q' = Tail(q)
Grown(q) == Len(q') > Len(q)
Publishing(f, s) == f'[s].log = Append(f[s].log, "publish")

\* a call of the stage took a step: it goes on, or it ended in this step
StepOf(stage, f) == f' # f \/ fin'.stage = stage

OneConsumerPerQueue ==
    /\ Taken(qVideo) => (StepOf("audio_extractor", ex) /\ tr' = tr /\ an' = an)
    /\ Taken(qAudio) => (StepOf("transcription", tr) /\ ex' = ex /\ an' = an)
    /\ Taken(qTranscript) => (StepOf("analyzer", an) /\ ex' = ex /\ tr' = tr)

OneEventToNextQueue ==
    env'.crashes = env.crashes =>
        /\ Grown(qVideo) => (fin'.stage = "ingestion" /\ fin'.call.status = 200)
        /\ Grown(qAudio) <=> \E s \in Slots : Publishing(ex, s)
        /\ env.source = "upload" =>
              (Grown(qTranscript) <=> \E s \in Slots : Publishing(tr, s))
        /\ \A s \in Slots :
              /\ Publishing(ex, s) =>
                    /\ Len(qAudio') = Len(qAudio) + 1
                    /\ SubSeq(qAudio', 1, Len(qAudio)) = qAudio
                    /\ qAudio'[Len(qAudio')].video_id = ex[s].event.video_id
                    /\ UNCHANGED <<qVideo, qTranscript>>
              /\ Publishing(tr, s) =>
                    /\ Len(qTranscript') = Len(qTranscript) + 1
                    /\ SubSeq(qTranscript', 1, Len(qTranscript)) = qTranscript
                    /\ qTranscript'[Len(qTranscript')].video_id
                          = tr[s].event.video_id
                    /\ UNCHANGED <<qVideo, qAudio>>

OnePublishPerCall ==
    (Ended("audio_extractor") \/ Ended("transcription")) =>
        /\ fin.call.msg \in {"acked", "rejected"}
        /\ Count(fin.call.log, "publish")
              = (IF fin.call.msg = "acked" THEN 1 ELSE 0)

C25_LinearChain ==
    []OnePublishPerCall /\ [][OneConsumerPerQueue /\ OneEventToNextQueue]_vars

C25_Witness ==
    /\ Ended("transcription") /\ fin.call.msg = "acked"
    /\ fin.call.event.video_id = "E2"
    /\ "E1" \in dead /\ db_summary["E1"] = Nil
    /\ Len(qTranscript) = 1 /\ qAudio = <<>> /\ qVideo = <<>>

\* C26: when a handle_transcript call for a non-blank transcript of entity E
\* ends with its message acked, analysis_summary has a row for E; if the call
\* restored the analysis from the cache, the row is the cached analysis.  A
\* summary row, once there, is never removed, so this stays so.
AckedAnalysis ==
    Ended("analyzer") /\ fin.call.msg = "acked" /\ ~Has(fin.call.log, "skip")

StoredOnAck ==
    AckedAnalysis =>
        /\ db_summary[fin.call.event.video_id] # Nil
        /\ (cap = 1 /\ fin.call.path = "hit") =>
              /\ cache[CacheKey(fin.call.event)] # Nil =>
                    db_summary[fin.call.event.video_id]
                        = SummaryRow(cache[CacheKey(fin.call.event)])
              /\ db_summary[fin.call.event.video_id] = SummaryRow(fin.call.result)

SummaryKept == \A id \in Ids : db_summary[id] # Nil => db_summary'[id] # Nil

C26_StoreConsistentOnHit == []StoredOnAck /\ [][SummaryKept]_vars

C26_Witness ==
    /\ AckedAnalysis /\ fin.call.path = "hit"
    /\ fin.call.event.video_id = "E2"
    /\ lastStored[fin.call.event.text].video_id = "E1"
    /\ db_summary["E1"] = db_summary["E2"]

\* C27: the cache is written only after compute and persist.  A step that
\* puts a value under a key is the redis.set of a call on the vendor path
\* whose log since its generate_content has the save steps in order, ending
\* with the save done, and no failure; the key is the call's key, the value
\* the analysis the call computed, and (one call at a time) that analysis is
\* then what analysis_summary and analysis_segments hold for the entity.  A
\* call that ends with a failed compute or failed persist on the vendor path
\* has written nothing to the cache.
LastIndex(log, what) ==
    LET at == {i \in 1..Len(log) : log[i] = what}
    IN  IF at = {} THEN 0 ELSE CHOOSE i \in at : \A j \in at : j <= i

IsSuffix(a, b) ==
    Len(a) <= Len(b) /\ SubSeq(b, Len(b) - Len(a) + 1, Len(b)) = a

ComputedThenSaved(log) ==
    LET g == LastIndex(log, "generate") IN
    /\ g > 0
    /\ Len(log) >= g + 3
    /\ log[g + 1] = "connect" /\ log[g + 2] = "upsert"
    /\ \A i \in (g + 3)..(Len(log) - 1) : log[i] = "insert"
    /\ log[Len(log)] = "saved"

CacheWrittenAfterSave ==
    \A k \in CacheKeys :
        (cache'[k] # cache[k] /\ cache'[k] # Nil) =>
            \E s \in Slots :
                /\ an[s].pc = "redis_set" /\ an[s].path = "miss"
                /\ k = CacheKey(an[s].event)
                /\ ComputedThenSaved(an[s].log)
                /\ cache'[k] = ModelDumpJson(an[s].result)
                /\ an[s].result.video_id = an[s].event.video_id
                /\ fin'.stage = "analyzer" /\ Has(fin'.call.log, "set")
                /\ cap = 1 =>
                      /\ db_summary[an[s].event.video_id]
                            = SummaryRow(an[s].result)
                      /\ IsSuffix(an[s].result.segments,
                                  SegRowsOf(an[s].event.video_id))

FailedCallCachesNothing ==
    (fin'.stage = "analyzer" /\ ~Has(fin'.call.log, "set")) => cache' = cache

C27_CacheStoreFollowsPersist ==
    [][CacheWrittenAfterSave /\ FailedCallCachesNothing]_vars

C27_Witness ==
    /\ Ended("analyzer") /\ Has(fin.call.log, "set") /\ fin.call.msg = "acked"
    /\ dead # {} /\ ~env.expired
    /\ \E t \in Texts : vendorCalls[t] > 0 /\ cache[[prefix |-> "analysis:",
                                                      hash |-> Sha256(t)]] = Nil

\* C28: a cached value that does not parse is treated as a miss.  The step
\* that reads it (a redis.get that does not itself fail) changes neither the tables nor the cache and sends the call
\* on to the vendor; no row of analysis_summary ever comes from such a
\* value; a call that read one and ends acked has asked the vendor, has
\* saved the vendor's analysis for its entity and has put that analysis
\* under the key in place of the value that did not parse.
ReadUnparsed(log) == Len(log) >= 2 /\ log[1] = "hit" /\ log[2] = "restore_failed"

UnparsedIsMiss ==
    \A s \in Slots :
        (an[s].pc = "redis_get" /\ ~ModelValidateJson(cache[CacheKey(an[s].event)]).ok
            /\ cache[CacheKey(an[s].event)] # Nil
            /\ an'[s] # an[s] /\ Busy(an'[s])) =>
            /\ an'[s].pc = "generate" /\ ReadUnparsed(an'[s].log)
            /\ UNCHANGED <<cache, db_summary, db_segments, vendorCalls>>

FreshAfterUnparsed ==
    /\ \A id \in Ids :
          db_summary[id] # Nil =>
              db_summary[id] \in {SummaryRow(j) : j \in VendorResponses}
    /\ \A s \in Slots :
          (ReadUnparsed(an[s].log) /\ an[s].pc # "generate") =>
              /\ Has(an[s].log, "generate") \/ Has(an[s].log, "generate_failed")
              /\ vendorCalls[an[s].event.text] > 0
    /\ (AckedAnalysis /\ ReadUnparsed(fin.call.log)) =>
          /\ ComputedThenSaved(SubSeq(fin.call.log, 1, Len(fin.call.log) - 1))
          /\ fin.call.log[Len(fin.call.log)] = "set"
          /\ db_summary[fin.call.event.video_id] = SummaryRow(fin.call.result)
          /\ cache[CacheKey(fin.call.event)] = ModelDumpJson(fin.call.result)
          /\ ModelDumpJson(fin.call.result) \in
                {[j EXCEPT !.video_id = fin.call.event.video_id] :
                    j \in VendorResponses}

C28_UnparsedCacheIsMiss == []FreshAfterUnparsed /\ [][UnparsedIsMiss]_vars

C28_Witness ==
    /\ AckedAnalysis /\ ReadUnparsed(fin.call.log)
    /\ fin.call.event.text = <<"a">>
    /\ cache[CacheKey(fin.call.event)].kind = "json"
    /\ vendorCalls[<<"a">>] = 1

\* C29: cache entries expire.  Every key that holds a value has an expiry of
\* 24 hours, given to it by the step that wrote the value; when an entry
\* expires its key holds nothing; a call that looks up a key holding nothing
\* goes to the vendor, and its generate_content step is one more vendor call
\* for that text.
DaySeconds == 24 * 60 * 60

EveryEntryExpires ==
    \A k \in CacheKeys :
        /\ cache[k] # Nil => (cache_ttl[k] # Nil /\ cache_ttl[k].seconds = DaySeconds)
        /\ cache[k] = Nil => cache_ttl[k] = Nil

ExpiryThenVendor ==
    /\ \A k \in CacheKeys :
          /\ (cache'[k] # cache[k] /\ cache'[k] # Nil) =>
                (cache_ttl'[k] # Nil /\ cache_ttl'[k].seconds = DaySeconds)
          /\ (cache[k] # Nil /\ cache'[k] = Nil) =>
                (env'.expired /\ cache_ttl[k] # Nil /\ cache_ttl'[k] = Nil)
    /\ \A s \in Slots :
          /\ (an[s].pc = "redis_get" /\ cache[CacheKey(an[s].event)] = Nil
                 /\ an'[s] # an[s] /\ Busy(an'[s])) =>
                (an'[s].pc = "generate" /\ an'[s].log = <<"miss">>)
          /\ (an[s].pc = "generate" /\ an'[s] # an[s]
                 /\ env'.crashes = env.crashes) =>
                vendorCalls'[an[s].event.text] = vendorCalls[an[s].event.text] + 1

C29_CacheEntriesExpire == []EveryEntryExpires /\ [][ExpiryThenVendor]_vars

C29_Witness ==
    /\ env.expired /\ ~env.faulted /\ env.crashes = 0
    /\ Ended("analyzer") /\ fin.call.log[1] = "miss" /\ Has(fin.call.log, "set")
    /\ vendorCalls[fin.call.event.text] = 2
    /\ cache_ttl[CacheKey(fin.call.event)] # Nil

\* C30: analysis_summary has one row per entity at most, and the row is the
\* last record saved for the entity, whole: a step changes the row of an
\* entity only as the upsert of a call whose analysis is for that entity, the
\* row is then that analysis in every column, and no other row changes.  No
\* step removes a summary row, and analysis_segments only ever gains rows at
\* its end.
IsPrefix(a, b) == Len(a) <= Len(b) /\ SubSeq(b, 1, Len(a)) = a

SummaryReplaced ==
    \A id \in Ids :
        db_summary'[id] # db_summary[id] =>
            \E s \in Slots :
                /\ an[s].pc = "upsert" /\ an[s].result.video_id = id
                /\ db_summary'[id].summary_text = an[s].result.summary
                /\ db_summary'[id].recommendations.items
                      = an[s].result.recommendations
                /\ DOMAIN db_summary'[id] = {"kind", "summary_text", "recommendations"}
                /\ \A other \in Ids \ {id} : db_summary'[other] = db_summary[other]

UpsertTakesEffect ==
    \A s \in Slots :
        an'[s].log = Append(an[s].log, "upsert") =>
            db_summary'[an[s].result.video_id] = SummaryRow(an[s].result)

RowsNeverDeleted ==
    /\ DOMAIN db_summary' = Ids
    /\ \A id \in Ids : db_summary[id] # Nil => db_summary'[id] # Nil
    /\ IsPrefix(db_segments, db_segments')

C30_OneSummaryPerEntity ==
    [][SummaryReplaced /\ UpsertTakesEffect /\ RowsNeverDeleted]_vars

C30_Witness ==
    /\ lastStored[<<"a">>].video_id = "E1" /\ lastStored[<<"b">>].video_id = "E1"
    /\ lastStored[<<"a">>].recommendations # lastStored[<<"b">>].recommendations
    /\ db_summary["E1"] = SummaryRow(lastStored[<<"b">>])
    /\ Ended("analyzer") /\ fin.call.event.text = <<"b">>
    /\ Len(SegRowsOf("E1")) = 3

\* C31: every invocation terminates: a call of a stage that has started
\* eventually ends with its message acked or rejected, also when an external
\* call of it never returns.
Terminal(stage) == Ended(stage) /\ fin.call.msg \in {"acked", "rejected"}

C31_EveryInvocationTerminates ==
    \A s \in Slots :
        /\ Busy(ex[s]) ~> (Terminal("audio_extractor") \/ env.crashes > 0)
        /\ Busy(tr[s]) ~> (Terminal("transcription") \/ env.crashes > 0)
        /\ Busy(an[s]) ~> (Terminal("analyzer") \/ env.crashes > 0)

\* C32: a slow external call does not block other items.  While a call of
\* extraction or transcription is at a synchronous external call (object get
\* or put, ffmpeg, the transcription vendor), every other call of the stage
\* that is in flight can take its next step, and a waiting event is taken
\* when the stage has a free slot; so another item can run to its end in the
\* meantime.
OthersGoOn ==
    \A s \in Slots, o \in Slots :
        /\ (o # s /\ ex[s].pc \in BlockingEx /\ Busy(ex[o])) => ENABLED ExStep(o)
        /\ (o # s /\ tr[s].pc \in BlockingTr /\ Busy(tr[o])) => ENABLED TrStep(o)

WaitingIsTaken ==
    \A s \in Slots :
        /\ (ex[s].pc \in BlockingEx /\ qVideo # <<>> /\ InFlight(ex) < cap)
              => ENABLED (\E o \in Slots : ExStart(o))
        /\ (tr[s].pc \in BlockingTr /\ qAudio # <<>> /\ InFlight(tr) < cap)
              => ENABLED (\E o \in Slots : TrStart(o))

C32_SlowCallDoesNotBlock == OthersGoOn /\ WaitingIsTaken

C32_Witness ==
    /\ ex["w1"].pc = "fget" /\ ex["w1"].log = <<>>
    /\ Ended("audio_extractor") /\ fin.call.msg = "acked"
    /\ fin.call.event.video_id # ex["w1"].event.video_id
    /\ env.crashes = 0 /\ ~env.faulted

\* C33: readers never see a partial analysis: a detail request answered 200
\* carries, with the summary of an analysis, all the segments of that
\* analysis (as the last rows of the entity), never none or only some.
C33_NoPartialRead ==
    (Ended("reporting") /\ fin.call.status = 200) =>
        \E j \in VendorResponses :
            /\ j.summary = fin.call.body.summary
            /\ IsSuffix(j.segments, fin.call.body.transcript_segments)

\* C34: a failed persist leaves the store unchanged: when the only call there
\* has been for an entity went to the vendor, failed inside save_to_postgres
\* and ended rejected, the store holds no summary row and no segment row for
\* the entity.
C34_FailedPersistLeavesNothing ==
    (/\ Ended("analyzer") /\ fin.call.msg = "rejected"
     /\ ~Has(fin.call.log, "hit")
     /\ \E what \in SaveFailKinds : Has(fin.call.log, what)
     /\ ~env.repeated /\ env.crashes = 0) =>
        /\ db_summary[fin.call.event.video_id] = Nil
        /\ SegRowsOf(fin.call.event.video_id) = <<>>

\* C35: calls of one stage for the same entity do not interfere through temp
\* files: while a call that is not itself taking the step still has a temp
\* file to read (ffmpeg's input, the audio to upload, the audio to
\* transcribe), no step removes that file and no other call downloads or
\* transcodes onto it.
ExNeeds(r) ==
    IF r.pc = "ffmpeg" THEN {TempVideoPath(r.event)}
    ELSE IF r.pc = "fput" THEN {TempAudioPath(r.event)}
    ELSE {}

TrNeeds(r) == IF r.pc = "transcribe" THEN {TrTempAudioPath(r.event)} ELSE {}

ExWrites(s) ==
    IF ex'[s].log = Append(ex[s].log, "fget") THEN {TempVideoPath(ex[s].event)}
    ELSE IF ex'[s].log = Append(ex[s].log, "ffmpeg") THEN {TempAudioPath(ex[s].event)}
    ELSE {}

TrWrites(s) ==
    IF tr'[s].log = Append(tr[s].log, "fget") THEN {TrTempAudioPath(tr[s].event)}
    ELSE {}

TempFilesLeftAlone ==
    \A o \in Slots :
        /\ ex'[o] = ex[o] =>
              \A p \in ExNeeds(ex[o]) \cap tmp :
                  /\ p \in tmp'
                  /\ \A s \in Slots \ {o} : p \notin ExWrites(s)
        /\ tr'[o] = tr[o] =>
              \A p \in TrNeeds(tr[o]) \cap tmp :
                  /\ p \in tmp'
                  /\ \A s \in Slots \ {o} : p \notin TrWrites(s)

C35_NoTempFileInterference == [][TempFilesLeftAlone]_vars

\* C36: the audio object key depends on the entity id alone.  The audio
\* bucket holds at most one object per entity, under "<id>/audio.mp3"; an
\* extraction call that ends acked has left that object there; and every
\* audio_extracted event, waiting or taken by a call, names that key,
\* however often the upload event was extracted.
AudioKeyOf(id) == [dir |-> id, name |-> "audio.mp3"]

C36_AudioKeyedByEntity ==
    /\ \A id \in Ids : Cardinality({k \in audio : k.dir = id}) <= 1
    /\ \A k \in audio : k = AudioKeyOf(k.dir)
    /\ (Ended("audio_extractor") /\ fin.call.msg = "acked") =>
          AudioKeyOf(fin.call.event.video_id) \in audio
    /\ \A i \in 1..Len(qAudio) :
          qAudio[i].audio_path = AudioKeyOf(qAudio[i].video_id)
    /\ \A s \in Slots :
          Busy(tr[s]) => tr[s].event.audio_path = AudioKeyOf(tr[s].event.video_id)

C36_Witness ==
    /\ env.crashes = 1
    /\ Busy(tr["w1"]) /\ tr["w1"].event.video_id = "E1"
    /\ Len(qAudio) = 1 /\ qAudio[1] = tr["w1"].event
    /\ audio = {AudioKeyOf("E1")}
    /\ Ended("audio_extractor") /\ fin.call.msg = "acked"

\* C37: when a call of extraction or transcription has ended, acked or
\* rejected, the temp files of its event are gone: the input and the output
\* of extraction, the audio of transcription.
C37_TempFilesCleanedUp ==
    /\ Ended("audio_extractor") =>
          /\ TempVideoPath(fin.call.event) \notin tmp
          /\ TempAudioPath(fin.call.event) \notin tmp
    /\ Ended("transcription") => TrTempAudioPath(fin.call.event) \notin tmp

C37_Witness ==
    /\ Ended("audio_extractor") /\ fin.call.msg = "rejected"
    /\ fin.call.log = <<"fget", "ffmpeg", "fput_failed", "reject">>
    /\ tmp = {} /\ env.crashes = 0

====
